---- MODULE Spec2Model ----
(***************************************************************************)
(* Model of easybuild/framework/easyconfig/format/convert.py (Patch,       *)
(* Patches, Dependency) and of easybuild/scripts/findPythonDeps.py         *)
(* (find_deps and the de-duplication loop of the script).                  *)
(*                                                                         *)
(* A string is a sequence of symbols.  A symbol is one of the separator    *)
(* characters ";", ":", ",", a decimal digit, or a separator-free piece of *)
(* text that is never cut ("filename", "level", "dest", "a", ">=", "==").  *)
(* A dict is the sequence of its items [k, v] in insertion order, a str    *)
(* value is [str |-> s], an int value is [int |-> n] and a version         *)
(* operator is [op |-> o, ver |-> v].                                      *)
(***************************************************************************)
EXTENDS Integers, Sequences, FiniteSets, TLC

VARIABLES typ, txt, round, pc, val, err, first, items, idx, acc, called,
          dep_tree, package, deps, failure, installed_modules, pos, handled, res

vars == <<typ, txt, round, pc, val, err, first, items, idx, acc, called,
          dep_tree, package, deps, failure, installed_modules, pos, handled, res>>

convertVars == <<typ, txt, round, pc, val, err, first, items, idx, acc, called>>
scriptVars == <<dep_tree, package, deps, failure, installed_modules, pos, handled, res>>

(***************************************************************************)
(* Bounds of the inputs.                                                   *)
(***************************************************************************)
MaxLen == 3
MaxSegs == 3
MaxPatches == 2
MaxDepSegs == 3
MaxDeps == 2
RecursionLimit == 4

(***************************************************************************)
(* Strings.                                                                *)
(***************************************************************************)
Str(w) == <<w>>

SeqsUpTo(S, n) == UNION {[1..k -> S] : k \in 0..n}

Range(s) == {s[i] : i \in DOMAIN s}

Digits == <<"0", "1", "2", "3", "4", "5", "6", "7", "8", "9">>

\* the index of the first occurrence of symbol c in s, 0 when there is none
Find(s, c) ==
    IF c \in Range(s) THEN CHOOSE i \in DOMAIN s : s[i] = c /\ \A j \in 1..(i - 1) : s[j] # c
    ELSE 0

RECURSIVE _split_string(_, _, _)
\* re.split(sep, txt, maxsplit=max): max = 0 is no limit
_split_string(t, sep, max) ==
    LET i == Find(t, sep)
    IN IF i = 0 THEN <<t>>
       ELSE IF max = 1 THEN <<SubSeq(t, 1, i - 1), SubSeq(t, i + 1, Len(t))>>
       ELSE <<SubSeq(t, 1, i - 1)>> \o
            _split_string(SubSeq(t, i + 1, Len(t)), sep, IF max = 0 THEN 0 ELSE max - 1)

RECURSIVE join(_, _)
\* sep.join(parts)
join(sep, parts) ==
    IF parts = <<>> THEN <<>>
    ELSE IF Len(parts) = 1 THEN parts[1]
    ELSE parts[1] \o <<sep>> \o join(sep, Tail(parts))

(***************************************************************************)
(* Results of a call: a returned value or a raised exception.              *)
(***************************************************************************)
Return(v) == [ok |-> TRUE, val |-> v, err |-> "none"]
Raise(e) == [ok |-> FALSE, val |-> <<>>, err |-> e]

\* int(s) of a str: the decimal value, ValueError unless s is one or more digits
\* (no symbol of the model is a sign, a blank or an underscore)
RECURSIVE DecimalValue(_)
DecimalValue(s) ==
    IF s = <<>> THEN 0
    ELSE 10 * DecimalValue(SubSeq(s, 1, Len(s) - 1)) + (Find(Digits, s[Len(s)]) - 1)

int(s) ==
    IF s # <<>> /\ \A i \in DOMAIN s : s[i] \in Range(Digits)
    THEN Return(DecimalValue(s))
    ELSE Raise("ValueError")

RECURSIVE IntToStr(_)
IntToStr(n) ==
    IF n < 10 THEN <<Digits[n + 1]>> ELSE IntToStr(n \div 10) \o <<Digits[(n % 10) + 1]>>

\* str(v) of a dict value
str(v) ==
    IF "int" \in DOMAIN v THEN IntToStr(v.int)
    ELSE IF "op" \in DOMAIN v THEN <<v.op>> \o v.ver
    ELSE v.str

(***************************************************************************)
(* Dicts.                                                                  *)
(***************************************************************************)
Keys(d) == {d[i].k : i \in DOMAIN d}
Get(d, key) == d[CHOOSE i \in DOMAIN d : d[i].k = key].v
\* d[key] = value
Set(d, key, value) ==
    IF key \in Keys(d)
    THEN [i \in DOMAIN d |-> IF d[i].k = key THEN [k |-> key, v |-> value] ELSE d[i]]
    ELSE Append(d, [k |-> key, v |-> value])
\* d1 == d2 of two dicts
DictEq(d1, d2) == Range(d1) = Range(d2)

(***************************************************************************)
(* easybuild.tools.convert: DictOfStrings and ListOfStrings.               *)
(***************************************************************************)
SEPARATOR_DICT == ";"
SEPARATOR_KEY_VALUE == ":"
SEPARATOR_LIST == ","

\* the allowed-key set of a subtype: its declared keys and its keyless keys
AllowedKeySet(allowed, keyless) == Range(allowed) \cup Range(keyless)

\* faulty variant: an explicit key silently replaces the value a keyless slot received
DictOfStrings_from_string_overwrite(t, allowed, keyless) ==
    LET segs == _split_string(t, SEPARATOR_DICT, 0)
        n == Len(segs)
        colonless(i) == SEPARATOR_KEY_VALUE \notin Range(segs[i])
        slots == IF n < Len(keyless) THEN n ELSE Len(keyless)
        k == Cardinality({i \in 1..slots : \A j \in 1..i : colonless(j)})
        key_value(i) == _split_string(segs[i], SEPARATOR_KEY_VALUE, 1)
        D[i \in k..n] ==
            IF i = k THEN [j \in 1..k |-> [k |-> keyless[j], v |-> [str |-> segs[j]]]]
            ELSE Set(D[i - 1], key_value(i)[1], [str |-> key_value(i)[2]])
    IN IF \E i \in (k + 1)..n : colonless(i) THEN Raise("ParseError")
       ELSE IF \E i \in (k + 1)..n : key_value(i)[1] \notin AllowedKeySet(allowed, keyless)
       THEN Raise("ValidationError")
       ELSE Return(D[n])

\* DictOfStrings._from_string with the subtype's ALLOWED_KEYS and KEYLESS_ENTRIES
DictOfStrings_from_string(t, allowed, keyless) ==
    LET segs == _split_string(t, SEPARATOR_DICT, 0)
        n == Len(segs)
        colonless(i) == SEPARATOR_KEY_VALUE \notin Range(segs[i])
        slots == IF n < Len(keyless) THEN n ELSE Len(keyless)
        \* the leading segments without ":" fill the keyless slots in declared order
        k == Cardinality({i \in 1..slots : \A j \in 1..i : colonless(j)})
        key_value(i) == _split_string(segs[i], SEPARATOR_KEY_VALUE, 1)
        D[i \in k..n] ==
            IF i = k THEN [j \in 1..k |-> [k |-> keyless[j], v |-> [str |-> segs[j]]]]
            ELSE Set(D[i - 1], key_value(i)[1], [str |-> key_value(i)[2]])
    IN IF \E i \in (k + 1)..n : colonless(i) THEN Raise("ParseError")
       ELSE IF \E i \in (k + 1)..n : key_value(i)[1] \notin AllowedKeySet(allowed, keyless)
       THEN Raise("ValidationError")
       ELSE IF \E i \in (k + 1)..n : key_value(i)[1] \in {keyless[j] : j \in 1..k}
       THEN Raise("ValidationError")
       ELSE Return(D[n])

\* DictOfStrings.__str__: the keyless values first, then key:value of the other items
DictOfStrings_str(d, keyless) ==
    LET K[i \in 0..Len(keyless)] ==
            IF i = 0 THEN <<>>
            ELSE IF keyless[i] \in Keys(d) THEN Append(K[i - 1], str(Get(d, keyless[i])))
            ELSE K[i - 1]
        R[i \in 0..Len(d)] ==
            IF i = 0 THEN <<>>
            ELSE IF d[i].k \in Range(keyless) THEN R[i - 1]
            ELSE Append(R[i - 1], d[i].k \o <<SEPARATOR_KEY_VALUE>> \o str(d[i].v))
    IN join(SEPARATOR_DICT, K[Len(keyless)] \o R[Len(d)])

\* ListOfStrings._from_string
ListOfStrings_from_string(t) == _split_string(t, SEPARATOR_LIST, 0)

\* ListOfStrings.__str__ over already converted elements
ListOfStrings_str(strs) == join(SEPARATOR_LIST, strs)

(***************************************************************************)
(* easybuild.framework.easyconfig.format.version: the version operators.   *)
(***************************************************************************)
Operators == {">=", "=="}
DEFAULT_OPERATOR == "=="

\* VersionOperator(s): an optional comparator and a version
VersionOperator(s) ==
    LET hasOp == s # <<>> /\ s[1] \in Operators
        ver == IF hasOp THEN Tail(s) ELSE s
    IN IF ver = <<>> \/ Range(ver) \cap Operators # {} THEN Raise("ParseError")
       ELSE Return([op |-> IF hasOp THEN s[1] ELSE DEFAULT_OPERATOR, ver |-> ver])

ToolchainVersionOperator(s) == VersionOperator(s)

(***************************************************************************)
(* convert.py: Patch, Patches, Dependency.                                 *)
(***************************************************************************)
\* faulty variant: one more key is allowed
ALLOWED_KEYS_more == <<Str("level"), Str("dest"), Str("a")>>
ALLOWED_KEYS == <<Str("level"), Str("dest")>>
\* faulty variants: no keyless entry; a second keyless entry
KEYLESS_ENTRIES_none == <<>>
KEYLESS_ENTRIES_two == <<Str("filename"), Str("dest")>>
KEYLESS_ENTRIES == <<Str("filename")>>

\* faulty variant: the level is left as the str of the dict grammar
Patch_from_string_str(t) == DictOfStrings_from_string(t, ALLOWED_KEYS, KEYLESS_ENTRIES)

\* Patch._from_string
Patch_from_string(t) ==
    LET r == DictOfStrings_from_string(t, ALLOWED_KEYS, KEYLESS_ENTRIES)
    IN IF ~r.ok THEN r
       ELSE IF Str("level") \in Keys(r.val)
       THEN LET n == int(Get(r.val, Str("level")).str)
            IN IF n.ok THEN Return(Set(r.val, Str("level"), [int |-> n.val])) ELSE n
       ELSE r

\* Patch.__str__ = DictOfStrings.__str__
Patch_str(d) == DictOfStrings_str(d, KEYLESS_ENTRIES)

\* Patches.__str__ = ListOfStrings.__str__
Patches_str(l) == ListOfStrings_str([i \in DOMAIN l |-> Patch_str(l[i])])

SEPARATOR_DEP == ";"

\* faulty variant: the number of elements has no upper limit
Dependency_from_string_unbounded(t) ==
    LET its == _split_string(t, SEPARATOR_DEP, 0)
    IN IF Len(its) < 1 THEN Raise("ValueError")
       ELSE LET versop == VersionOperator(its[1])
                r1 == <<[k |-> Str("versop"), v |-> versop.val]>>
            IN IF ~versop.ok THEN versop
               ELSE IF Len(its) > 1
               THEN LET tc_versop == ToolchainVersionOperator(its[2])
                    IN IF ~tc_versop.ok THEN tc_versop
                       ELSE Return(Set(r1, Str("tc_versop"), tc_versop.val))
               ELSE Return(r1)

\* Dependency._from_string
Dependency_from_string(t) ==
    LET its == _split_string(t, SEPARATOR_DEP, 0)
    IN IF Len(its) < 1 \/ Len(its) > 2 THEN Raise("ValueError")
       ELSE LET versop == VersionOperator(its[1])
                r1 == <<[k |-> Str("versop"), v |-> versop.val]>>
            IN IF ~versop.ok THEN versop
               ELSE IF Len(its) > 1
               THEN LET tc_versop == ToolchainVersionOperator(its[2])
                    IN IF ~tc_versop.ok THEN tc_versop
                       ELSE Return(Set(r1, Str("tc_versop"), tc_versop.val))
               ELSE Return(r1)

\* Dependency.__str__
Dependency_str(d) ==
    LET tmp == <<str(Get(d, Str("versop")))>>
    IN join(SEPARATOR_DEP,
            IF Str("tc_versop") \in Keys(d) THEN Append(tmp, str(Get(d, Str("tc_versop"))))
            ELSE tmp)

(***************************************************************************)
(* The input strings.                                                      *)
(***************************************************************************)
Types == {"Patch", "Patches", "Dependency"}

\* every string of at most MaxLen symbols
ShortAlphabet == {"filename", "level", "a", "1", ":", ";", ","}
ShortTexts == SeqsUpTo(ShortAlphabet, MaxLen)

\* longer strings: segments are a value, or a key, ":" and a value
Values == {<<"a">>, <<"0", "1">>, <<"a", ":", "a">>}
KeyNames == {"filename", "level", "dest", "a"}
Segments == Values \cup {<<k, ":">> \o v : k \in KeyNames, v \in Values}
PatchTexts == {join(";", p) : p \in SeqsUpTo(Segments, MaxSegs) \ {<<>>}}

ListElements == Segments \cup {<<"a", ";">> \o s : s \in Segments}
PatchesTexts == {join(",", p) : p \in SeqsUpTo(ListElements, MaxPatches) \ {<<>>}}

VersionTexts == {<<"a">>, <<">=", "a">>, <<">=">>, <<"0", "1">>}
DependencyTexts == {join(";", p) : p \in SeqsUpTo(VersionTexts, MaxDepSegs) \ {<<>>}}

Inputs(type) ==
    ShortTexts \cup
    (IF type = "Patch" THEN PatchTexts
     ELSE IF type = "Patches" THEN PatchesTexts
     ELSE DependencyTexts)

(***************************************************************************)
(* Conversions: obj = Type(txt); txt2 = str(obj); obj2 = Type(txt2).       *)
(***************************************************************************)
Init ==
    /\ typ \in Types
    /\ txt \in Inputs(typ)
    /\ round = 1 /\ pc = "start" /\ val = <<>> /\ err = "none"
    /\ first = <<>> /\ items = <<>> /\ idx = 0 /\ acc = <<>> /\ called = {}
    /\ dep_tree = <<>> /\ package = <<>> /\ deps = <<>> /\ failure = "none"
    /\ installed_modules = {} /\ pos = 0 /\ handled = {} /\ res = <<>>

\* Patch(txt)
PatchInit ==
    /\ pc = "start" /\ typ = "Patch"
    /\ LET r == Patch_from_string(txt)
       IN /\ val' = r.val
          /\ err' = r.err
          /\ pc' = IF r.ok THEN "parsed" ELSE "failed"
    /\ UNCHANGED <<typ, txt, round, first, items, idx, acc, called>>
    /\ UNCHANGED scriptVars

\* Dependency(txt)
DependencyInit ==
    /\ pc = "start" /\ typ = "Dependency"
    /\ LET r == Dependency_from_string(txt)
       IN /\ val' = r.val
          /\ err' = r.err
          /\ pc' = IF r.ok THEN "parsed" ELSE "failed"
    /\ UNCHANGED <<typ, txt, round, first, items, idx, acc, called>>
    /\ UNCHANGED scriptVars

\* Patches._from_string: res = ListOfStrings._from_string(self, txt)
PatchesSplit ==
    /\ pc = "start" /\ typ = "Patches"
    /\ items' = ListOfStrings_from_string(txt)
    /\ idx' = 1 /\ acc' = <<>> /\ called' = {}
    /\ pc' = "loop"
    /\ UNCHANGED <<typ, txt, round, val, err, first>>
    /\ UNCHANGED scriptVars

\* faulty variant: the list is built back to front
PatchesElement_prepend ==
    /\ pc = "loop" /\ idx <= Len(items)
    /\ called' = called \cup {idx}
    /\ LET r == Patch_from_string(items[idx])
       IN IF r.ok
          THEN /\ acc' = <<r.val>> \o acc
               /\ idx' = idx + 1
               /\ UNCHANGED <<pc, err>>
          ELSE /\ pc' = "failed"
               /\ err' = r.err
               /\ UNCHANGED <<acc, idx>>
    /\ UNCHANGED <<typ, txt, round, val, first, items>>
    /\ UNCHANGED scriptVars

\* faulty variant: an element that is no valid Patch is left out and the loop goes on
PatchesElement_skip ==
    /\ pc = "loop" /\ idx <= Len(items)
    /\ called' = called \cup {idx}
    /\ LET r == Patch_from_string(items[idx])
       IN acc' = IF r.ok THEN Append(acc, r.val) ELSE acc
    /\ idx' = idx + 1
    /\ UNCHANGED <<pc, err>>
    /\ UNCHANGED <<typ, txt, round, val, first, items>>
    /\ UNCHANGED scriptVars

\* Patches._from_string: one Patch(x) of [Patch(x) for x in res]
PatchesElement ==
    /\ pc = "loop" /\ idx <= Len(items)
    /\ called' = called \cup {idx}
    /\ LET r == Patch_from_string(items[idx])
       IN IF r.ok
          THEN /\ acc' = Append(acc, r.val)
               /\ idx' = idx + 1
               /\ UNCHANGED <<pc, err>>
          ELSE /\ pc' = "failed"
               /\ err' = r.err
               /\ UNCHANGED <<acc, idx>>
    /\ UNCHANGED <<typ, txt, round, val, first, items>>
    /\ UNCHANGED scriptVars

\* Patches._from_string: return of the list
PatchesReturn ==
    /\ pc = "loop" /\ idx > Len(items)
    /\ val' = acc
    /\ pc' = "parsed"
    /\ UNCHANGED <<typ, txt, round, err, first, items, idx, acc, called>>
    /\ UNCHANGED scriptVars

\* str(obj)
Serialize(obj) ==
    IF typ = "Patch" THEN Patch_str(obj)
    ELSE IF typ = "Patches" THEN Patches_str(obj)
    ELSE Dependency_str(obj)

\* txt2 = str(obj), to be converted again
Reserialize ==
    /\ pc = "parsed" /\ round = 1
    /\ first' = val
    /\ txt' = Serialize(val)
    /\ round' = 2 /\ pc' = "start"
    /\ val' = <<>> /\ items' = <<>> /\ idx' = 0 /\ acc' = <<>> /\ called' = {}
    /\ UNCHANGED <<typ, err>>
    /\ UNCHANGED scriptVars

Next ==
    \/ PatchInit
    \/ DependencyInit
    \/ PatchesSplit
    \/ PatchesElement
    \/ PatchesReturn
    \/ Reserialize

Spec == Init /\ [][Next]_vars

(***************************************************************************)
(* The text as the grammar of the conversions sees it: the pieces between  *)
(* separators, counted from the positions of the separators.               *)
(***************************************************************************)
SepPos(t, sep) == {i \in DOMAIN t : t[i] = sep}
NumPieces(t, sep) == Cardinality(SepPos(t, sep)) + 1
NthSep(t, sep, j) ==
    IF j = 0 THEN 0
    ELSE IF j > Cardinality(SepPos(t, sep)) THEN Len(t) + 1
    ELSE CHOOSE q \in SepPos(t, sep) : Cardinality({r \in SepPos(t, sep) : r < q}) = j - 1
Piece(t, sep, j) == SubSeq(t, NthSep(t, sep, j - 1) + 1, NthSep(t, sep, j) - 1)

HasColon(seg) == ":" \in Range(seg)
KeyOf(seg) == Piece(seg, ":", 1)
ValueOf(seg) == SubSeq(seg, Len(KeyOf(seg)) + 2, Len(seg))
IsNumeric(s) == s # <<>> /\ Range(s) \subseteq Range(Digits)

\* a conversion has ended: it returned a value or raised
Ended == pc \in {"parsed", "failed"}

\* obj == obj2 in Python: dicts compare by items, lists element by element
ValueEq(type, a, b) ==
    IF type = "Patches"
    THEN Len(a) = Len(b) /\ \A i \in DOMAIN a : DictEq(a[i], b[i])
    ELSE DictEq(a, b)

(***************************************************************************)
(* C1  Round trip: the string str(obj) of every converted Patch, Patches   *)
(* or Dependency converts again, to a value equal to obj.                  *)
(***************************************************************************)
RoundTrip ==
    round = 2 => /\ pc # "failed"
                 /\ pc = "parsed" => ValueEq(typ, val, first)

(***************************************************************************)
(* Patch texts as the dict grammar sees them.                              *)
(***************************************************************************)
NumSegs(t) == NumPieces(t, ";")
Seg(t, i) == Piece(t, ";", i)
PatchKeys == {Str("filename"), Str("level"), Str("dest")}

\* f;<tail>: a first segment without ":", every later segment is key:value
PositionalForm(t) ==
    /\ ~HasColon(Seg(t, 1))
    /\ \A i \in 2..NumSegs(t) : HasColon(Seg(t, i))
\* the tail supplies only level and dest, and every level is a decimal number
TailValid(t) ==
    \A i \in 2..NumSegs(t) :
        /\ KeyOf(Seg(t, i)) \in {Str("level"), Str("dest")}
        /\ KeyOf(Seg(t, i)) = Str("level") => IsNumeric(ValueOf(Seg(t, i)))
TailHasFilename(t) == \E i \in 2..NumSegs(t) : KeyOf(Seg(t, i)) = Str("filename")
\* filename:f;<tail>
Explicit(t) == <<"filename", ":">> \o t

HasUnknownKey(t) ==
    \E i \in 1..NumSegs(t) : HasColon(Seg(t, i)) /\ KeyOf(Seg(t, i)) \notin PatchKeys
HasLateColonless(t) == \E i \in 2..NumSegs(t) : ~HasColon(Seg(t, i))
HasDuplicateFilename(t) ==
    /\ ~HasColon(Seg(t, 1))
    /\ \E i \in 2..NumSegs(t) : HasColon(Seg(t, i)) /\ KeyOf(Seg(t, i)) = Str("filename")

LevelSegs(t) == {i \in 1..NumSegs(t) : HasColon(Seg(t, i)) /\ KeyOf(Seg(t, i)) = Str("level")}
\* the level text the dict grammar hands to int(): that of the last level segment
LevelText(t) == ValueOf(Seg(t, CHOOSE i \in LevelSegs(t) : \A j \in LevelSegs(t) : j <= i))

(***************************************************************************)
(* C2 as stated: for every f without ";" and ":" and every tail of         *)
(* key:value segments, Patch("f;<tail>") succeeds and equals               *)
(* Patch("filename:f;<tail>").                                             *)
(***************************************************************************)
PositionalExplicitEveryTail ==
    (typ = "Patch" /\ Ended /\ PositionalForm(txt)) =>
        /\ pc = "parsed"
        /\ Patch_from_string(Explicit(txt)).ok
        /\ DictEq(val, Patch_from_string(Explicit(txt)).val)

(***************************************************************************)
(* C2 amended: for every f without ";" and ":" and every tail of key:value *)
(* segments with no filename key, Patch("f;<tail>") and                    *)
(* Patch("filename:f;<tail>") both fail or both return equal values; both  *)
(* succeed when the tail's keys are level and dest and every level is a    *)
(* decimal number.                                                         *)
(***************************************************************************)
PositionalExplicitEquivalence ==
    (typ = "Patch" /\ Ended /\ PositionalForm(txt) /\ ~TailHasFilename(txt)) =>
        LET e == Patch_from_string(Explicit(txt))
        IN /\ e.ok <=> pc = "parsed"
           /\ e.ok => DictEq(val, e.val)
           /\ TailValid(txt) => pc = "parsed"

PositionalExplicitWitness ==
    /\ typ = "Patch" /\ pc = "parsed" /\ round = 1
    /\ PositionalForm(txt) /\ NumSegs(txt) = 3
    /\ Keys(val) = PatchKeys

UnknownKeyValidationError ==
    (typ = "Patch" /\ Ended) =>
        /\ HasUnknownKey(txt) => pc = "failed" /\ err = "ValidationError" /\ val = <<>>
        /\ pc = "parsed" => Keys(val) \subseteq PatchKeys

(***************************************************************************)
(* C4 amended: every Patch text with a key:value segment whose key is not  *)
(* filename, level or dest fails and returns no value, with a validation   *)
(* error unless a segment after the first has no ":" (then the ParseError  *)
(* of that segment is raised); every converted Patch has its keys among    *)
(* the three.                                                              *)
(***************************************************************************)
UnknownKeyRejection ==
    (typ = "Patch" /\ Ended) =>
        /\ HasUnknownKey(txt) =>
               /\ pc = "failed" /\ val = <<>>
               /\ err = IF HasLateColonless(txt) THEN "ParseError" ELSE "ValidationError"
        /\ pc = "parsed" => Keys(val) \subseteq PatchKeys

UnknownKeyWitness ==
    /\ typ = "Patch" /\ pc = "failed" /\ err = "ValidationError"
    /\ NumSegs(txt) = 2 /\ ~HasColon(Seg(txt, 1))
    /\ HasColon(Seg(txt, 2)) /\ KeyOf(Seg(txt, 2)) = Str("a")

(***************************************************************************)
(* C5  Duplicate keyless rejection: a Patch text whose first segment has   *)
(* no ":" and which also has a filename:<value> segment fails; the later   *)
(* value never replaces the positional one.                                *)
(***************************************************************************)
DuplicateKeylessRejection ==
    (typ = "Patch" /\ Ended /\ HasDuplicateFilename(txt)) => pc = "failed" /\ val = <<>>

DuplicateKeylessWitness ==
    /\ typ = "Patch" /\ pc = "failed" /\ err = "ValidationError"
    /\ HasDuplicateFilename(txt)
    /\ ~HasUnknownKey(txt) /\ ~HasLateColonless(txt)

(***************************************************************************)
(* Patches texts as the list grammar sees them.                            *)
(***************************************************************************)
NumElems(t) == NumPieces(t, ",")
Elem(t, i) == Piece(t, ",", i)
Invalid(t) == {i \in 1..NumElems(t) : ~Patch_from_string(Elem(t, i)).ok}
FirstInvalid(t) == CHOOSE i \in Invalid(t) : \A j \in Invalid(t) : i <= j

(***************************************************************************)
(* C6  Patches order preservation: a text of n >= 1 comma-separated valid  *)
(* Patch texts converts to a sequence of exactly n elements, the i-th      *)
(* being the Patch of the i-th text.                                       *)
(***************************************************************************)
PatchesOrderPreservation ==
    typ = "Patches" =>
        /\ (Ended /\ Invalid(txt) = {}) => pc = "parsed"
        /\ pc = "parsed" =>
               /\ Len(val) = NumElems(txt)
               /\ \A i \in 1..NumElems(txt) : DictEq(val[i], Patch_from_string(Elem(txt, i)).val)

PatchesOrderWitness ==
    /\ typ = "Patches" /\ pc = "parsed" /\ round = 1
    /\ Len(val) = 2
    /\ Keys(val[1]) = {Str("filename")}
    /\ Keys(val[2]) = {Str("filename"), Str("level")}

\* the errors that count as the ParseError of a level: that of the grammar, that of int()
LevelParseErrors == {"ParseError", "ValueError"}

\* filename and dest of the converted Patch are the strs of the dict grammar
CoercionLeavesStrings ==
    LET d == DictOfStrings_from_string(txt, ALLOWED_KEYS, KEYLESS_ENTRIES).val
    IN \A key \in {Str("filename"), Str("dest")} :
           /\ key \in Keys(val) <=> key \in Keys(d)
           /\ key \in Keys(val) => Get(val, key) = Get(d, key) /\ "str" \in DOMAIN Get(val, key)

(***************************************************************************)
(* C7 as stated: a converted Patch whose text supplied a level has the     *)
(* decimal value of that text as an integer level; a level text that is    *)
(* not a number makes the conversion fail with ParseError (the ValueError  *)
(* of int()) and return no value; without a level segment there is no      *)
(* level key; filename and dest stay the strings of the dict grammar.      *)
(***************************************************************************)
IntegerCoercionParseError ==
    (typ = "Patch" /\ Ended) =>
        /\ (pc = "parsed" /\ LevelSegs(txt) # {}) =>
               /\ IsNumeric(LevelText(txt))
               /\ Get(val, Str("level")) = [int |-> DecimalValue(LevelText(txt))]
        /\ (LevelSegs(txt) # {} /\ ~IsNumeric(LevelText(txt))) =>
               pc = "failed" /\ err \in LevelParseErrors /\ val = <<>>
        /\ (pc = "parsed" /\ LevelSegs(txt) = {}) => Str("level") \notin Keys(val)
        /\ pc = "parsed" => CoercionLeavesStrings

(***************************************************************************)
(* C7 amended: as stated, except that a level text that is not a number    *)
(* makes the conversion fail with the ValueError of int() when the dict    *)
(* grammar accepts the text, and with the dict grammar's own error         *)
(* (ParseError or ValidationError) when it does not.                       *)
(***************************************************************************)
IntegerCoercion ==
    (typ = "Patch" /\ Ended) =>
        LET d == DictOfStrings_from_string(txt, ALLOWED_KEYS, KEYLESS_ENTRIES)
        IN /\ (pc = "parsed" /\ LevelSegs(txt) # {}) =>
                  /\ IsNumeric(LevelText(txt))
                  /\ Get(val, Str("level")) = [int |-> DecimalValue(LevelText(txt))]
           /\ (LevelSegs(txt) # {} /\ ~IsNumeric(LevelText(txt))) =>
                  /\ pc = "failed" /\ val = <<>>
                  /\ err = IF d.ok THEN "ValueError" ELSE d.err
           /\ (pc = "parsed" /\ LevelSegs(txt) = {}) => Str("level") \notin Keys(val)
           /\ pc = "parsed" => CoercionLeavesStrings

IntegerCoercionWitness ==
    /\ typ = "Patch" /\ pc = "parsed" /\ round = 1
    /\ LevelSegs(txt) # {} /\ LevelText(txt) = <<"0", "1">>
    /\ Get(val, Str("level")) = [int |-> 1]
    /\ Str("dest") \in Keys(val)

(***************************************************************************)
(* C8  Positional segments only in the leading keyless slot: a Patch text  *)
(* with a segment without ":" after the first segment fails with           *)
(* ParseError.                                                             *)
(***************************************************************************)
PositionalOnlyLeading ==
    (typ = "Patch" /\ Ended /\ HasLateColonless(txt)) =>
        pc = "failed" /\ err = "ParseError" /\ val = <<>>

PositionalOnlyLeadingWitness ==
    /\ typ = "Patch" /\ pc = "failed" /\ err = "ParseError"
    /\ NumSegs(txt) = 2
    /\ KeyOf(Seg(txt, 1)) = Str("level") /\ HasColon(Seg(txt, 1))
    /\ ~HasColon(Seg(txt, 2))

(***************************************************************************)
(* C9  Fail-fast list conversion: when an element of a Patches text is not *)
(* a valid Patch, the conversion fails with the error of the leftmost      *)
(* invalid element, no element to the right of it is converted and no      *)
(* partial sequence is returned.                                           *)
(***************************************************************************)
FailFast ==
    (typ = "Patches" /\ Invalid(txt) # {}) =>
        /\ called \subseteq 1..FirstInvalid(txt)
        /\ pc # "parsed"
        /\ val = <<>>
        /\ pc = "failed" =>
               /\ err = Patch_from_string(Elem(txt, FirstInvalid(txt))).err
               /\ called = 1..FirstInvalid(txt)

FailFastWitness ==
    /\ typ = "Patches" /\ pc = "failed"
    /\ NumElems(txt) = 3 /\ FirstInvalid(txt) = 2
    /\ called = {1, 2} /\ Len(acc) = 1

(***************************************************************************)
(* findPythonDeps.py.  dep_tree is the list pipdeptree prints: entries     *)
(* with the package (package_name, key, installed_version) and the         *)
(* package_name of each dependency.  A package name is one symbol;         *)
(* args.package is a string: a name, then maybe a version constraint.      *)
(***************************************************************************)
PackageNames == <<"A", "b", "c">>
\* the key of pipdeptree: the name in lower case
KeyOfName(name) == IF name = "A" THEN "a" ELSE name

Entry(name, version, dependencies) ==
    [package |-> [package_name |-> name, key |-> KeyOfName(name), installed_version |-> version],
     dependencies |-> dependencies]

\* lists of distinct dependencies
DependencyLists ==
    {d \in SeqsUpTo(Range(PackageNames), MaxDeps) : \A i, j \in DOMAIN d : i # j => d[i] # d[j]}

\* a package is not installed, installed once, or found twice (two versions)
Copies == {0, 1, 2}
EntriesOf(name, copies, dependencies) == [v \in 1..copies |-> Entry(name, v, dependencies)]

DepTrees ==
    {EntriesOf(PackageNames[1], c[1], d[1]) \o EntriesOf(PackageNames[2], c[2], d[2])
        \o EntriesOf(PackageNames[3], c[3], d[3]) :
        c \in [1..3 -> Copies], d \in [1..3 -> DependencyLists]}

PackageSpecs == {<<"A">>, <<"a", "=", "=", "1">>, <<"b">>}

\* re.split('<|>|=|~', args.package, 1)[0]: the argument is not read, args.package is
extract_pkg_name(package_spec) ==
    LET cut == {i \in DOMAIN package : package[i] \in {"<", ">", "=", "~"}}
    IN IF cut = {} THEN package
       ELSE SubSeq(package, 1, (CHOOSE i \in cut : \A j \in cut : i <= j) - 1)

RECURSIVE find_deps(_, _, _)
\* find_deps(pkgs, dep_tree) at the given depth of the call stack
find_deps(pkgs, tree, depth) ==
    IF depth > RecursionLimit THEN Raise("RecursionError")
    ELSE IF pkgs = <<>> THEN Return(<<>>)
    ELSE LET pkg == Head(pkgs)
             matching_entries ==
                 SelectSeq(tree, LAMBDA entry :
                                     pkg \in {entry.package.package_name, entry.package.key})
         IN IF matching_entries = <<>> THEN Raise("RuntimeError")
            ELSE IF Len(matching_entries) > 1 THEN Raise("RuntimeError")
            ELSE LET entry == matching_entries[1]
                     sub == find_deps(entry.dependencies, tree, depth + 1)
                     rest == find_deps(Tail(pkgs), tree, depth)
                 IN IF ~sub.ok THEN sub
                    ELSE IF ~rest.ok THEN rest
                    ELSE Return(<< <<entry.package.package_name,
                                     entry.package.installed_version>> >>
                                \o sub.val \o rest.val)

ScriptInit ==
    /\ dep_tree \in DepTrees
    /\ package \in PackageSpecs
    /\ pc = "find_deps"
    /\ deps = <<>> /\ failure = "none" /\ installed_modules = {}
    /\ pos = 0 /\ handled = {} /\ res = <<>>
    /\ typ = "" /\ txt = <<>> /\ round = 0 /\ val = <<>> /\ err = "none"
    /\ first = <<>> /\ items = <<>> /\ idx = 0 /\ acc = <<>> /\ called = {}

\* deps = find_deps([extract_pkg_name(args.package)], dep_tree)
FindDeps ==
    /\ pc = "find_deps"
    /\ LET r == find_deps(<<extract_pkg_name(package)[1]>>, dep_tree, 1)
       IN /\ deps' = r.val
          /\ failure' = r.err
          /\ pc' = IF r.ok THEN "installed" ELSE "failed"
    /\ UNCHANGED <<dep_tree, package, installed_modules, pos, handled, res>>
    /\ UNCHANGED <<typ, txt, round, val, err, first, items, idx, acc, called>>

\* installed_modules = {mod.project_name for mod in pkg_resources.working_set}
InstalledModules ==
    /\ pc = "installed"
    /\ installed_modules' \in SUBSET Range(PackageNames)
    /\ res' = <<>> /\ handled' = {} /\ pos' = Len(deps)
    /\ pc' = "loop"
    /\ UNCHANGED <<dep_tree, package, deps, failure>>
    /\ UNCHANGED <<typ, txt, round, val, err, first, items, idx, acc, called>>

\* faulty variant: the installed modules are not filtered out
DedupStep_unfiltered ==
    /\ pc = "loop" /\ pos >= 1
    /\ LET dep == deps[pos]
       IN IF dep \notin handled
          THEN /\ handled' = handled \cup {dep}
               /\ res' = Append(res, dep)
          ELSE UNCHANGED <<handled, res>>
    /\ pos' = pos - 1
    /\ UNCHANGED <<dep_tree, package, deps, failure, installed_modules>>
    /\ UNCHANGED <<typ, txt, round, pc, val, err, first, items, idx, acc, called>>

\* one iteration of: for dep in reversed(deps)
DedupStep ==
    /\ pc = "loop" /\ pos >= 1
    /\ LET dep == deps[pos]
       IN IF dep \notin handled
          THEN /\ handled' = handled \cup {dep}
               /\ res' = IF dep[1] \in installed_modules THEN res ELSE Append(res, dep)
          ELSE UNCHANGED <<handled, res>>
    /\ pos' = pos - 1
    /\ UNCHANGED <<dep_tree, package, deps, failure, installed_modules>>
    /\ UNCHANGED <<typ, txt, round, pc, val, err, first, items, idx, acc, called>>

\* the loop is over: the list is printed
PrintResult ==
    /\ pc = "loop" /\ pos = 0
    /\ pc' = "done"
    /\ UNCHANGED scriptVars
    /\ UNCHANGED <<typ, txt, round, val, err, first, items, idx, acc, called>>

ScriptNext ==
    \/ FindDeps
    \/ InstalledModules
    \/ DedupStep
    \/ PrintResult

ScriptSpec == ScriptInit /\ [][ScriptNext]_vars

(***************************************************************************)
(* The dependency relation of a dep_tree, between its entries.             *)
(***************************************************************************)
Matches(tree, name) ==
    {i \in DOMAIN tree : name \in {tree[i].package.package_name, tree[i].package.key}}
Requested == extract_pkg_name(package)[1]
Referenced(tree) == {Requested} \cup UNION {Range(tree[i].dependencies) : i \in DOMAIN tree}
Direct(tree, i) == UNION {Matches(tree, name) : name \in Range(tree[i].dependencies)}
\* the entries reached from entry i in one or more steps
Descendants(tree, i) ==
    LET D[k \in 1..Len(tree)] ==
            IF k = 1 THEN Direct(tree, i)
            ELSE LET before == D[k - 1]
                 IN before \cup UNION {Direct(tree, j) : j \in before}
    IN D[Len(tree)]
Acyclic(tree) == \A i \in DOMAIN tree : i \notin Descendants(tree, i)
UniqueMatches(tree) == \A name \in Referenced(tree) : Cardinality(Matches(tree, name)) = 1

\* the names find_deps looks up when no lookup raises
LookedUp(tree) ==
    LET N[k \in 0..Len(tree)] ==
            IF k = 0 THEN {Requested}
            ELSE LET before == N[k - 1]
                 IN before \cup
                    UNION {Range(tree[i].dependencies) :
                               i \in {j \in DOMAIN tree :
                                          \E name \in before : Matches(tree, name) = {j}}}
    IN N[Len(tree)]

Pair(entry) == <<entry.package.package_name, entry.package.installed_version>>
EntryOfPair(tree, p) == CHOOSE i \in DOMAIN tree : Pair(tree[i]) = p

RECURSIVE PreOrder(_, _)
\* the package of the entry of name, then the pre-orders of its dependencies in order
PreOrder(tree, name) ==
    LET entry == tree[CHOOSE i \in Matches(tree, name) : TRUE]
        Below[k \in 0..Len(entry.dependencies)] ==
            IF k = 0 THEN <<>> ELSE Below[k - 1] \o PreOrder(tree, entry.dependencies[k])
    IN <<Pair(entry)>> \o Below[Len(entry.dependencies)]

(***************************************************************************)
(* C10  Install order: on an acyclic dep_tree in which every referenced    *)
(* name matches exactly one entry, find_deps returns the pre-order         *)
(* traversal from the requested package, and the printed list has every    *)
(* (name, version) pair at most once, no installed module, and every       *)
(* package after all its listed direct and transitive dependencies; a      *)
(* looked-up name matching no or several entries raises RuntimeError.      *)
(***************************************************************************)
InstallOrder ==
    /\ (UniqueMatches(dep_tree) /\ Acyclic(dep_tree)) =>
           /\ pc # "failed"
           /\ pc # "find_deps" => deps = PreOrder(dep_tree, Requested)
           /\ pc = "done" =>
                  /\ \A i, j \in DOMAIN res : i # j => res[i] # res[j]
                  /\ \A i \in DOMAIN res : res[i][1] \notin installed_modules
                  /\ \A i, j \in DOMAIN res :
                         EntryOfPair(dep_tree, res[j])
                             \in Descendants(dep_tree, EntryOfPair(dep_tree, res[i]))
                         => j < i
    /\ (pc # "find_deps"
          /\ (\E name \in LookedUp(dep_tree) : Cardinality(Matches(dep_tree, name)) # 1)
          /\ Acyclic(dep_tree)) =>
           pc = "failed" /\ failure = "RuntimeError"
    /\ (pc # "find_deps" /\ Cardinality(Matches(dep_tree, Requested)) # 1) =>
           pc = "failed" /\ failure = "RuntimeError"

InstallOrderWitness ==
    /\ pc = "done"
    /\ Acyclic(dep_tree) /\ UniqueMatches(dep_tree)
    /\ package = <<"a", "=", "=", "1">>
    /\ Len(deps) = 4
    /\ installed_modules = {"b"}
    /\ res = << <<"c", 1>>, <<"A", 1>> >>

====
